---------------------------- MODULE Spec2Model ----------------------------
(***************************************************************************)
(* A model of swc (src/swc/cli.py), a reimplementation of wc on top of     *)
(* click.                                                                  *)
(*                                                                         *)
(* Texts are sequences of Unicode scalar values (integers); printed        *)
(* strings are sequences of one-character strings, so that str(), the tab  *)
(* join and the appended file name are computed character by character.    *)
(*                                                                         *)
(* Four specifications share the variables:                                *)
(*   Spec          one Python process in which the cli command is invoked  *)
(*                 any number of times (OrderedOptionsCommand._options is  *)
(*                 a class attribute and lives as long as the process);    *)
(*   SpecCounter   get_wc_values applied to a bounded set of texts;        *)
(*   SpecResolver  byte_or_char applied to bounded parameter lists;        *)
(*   SpecFormat    create_output applied to all flag tuples.               *)
(***************************************************************************)
EXTENDS Integers, Sequences, FiniteSets

VARIABLES
    _options,        \* OrderedOptionsCommand._options (class attribute)
    args,            \* command-line option tokens of the current invocation
    file,            \* the opened file of the current invocation: name, text
    ran,             \* how far the current invocation / function call got
    params,          \* (count, lines, words, chars) as cli receives them
    ordered_params,  \* the list handed to parse_file / byte_or_char
    values,          \* get_wc_values' result
    last_param,      \* byte_or_char's result
    output,          \* the line echoed by cli / returned by create_output
    first            \* history: the first invocation that reached cli

vars == <<_options, args, file, ran, params, ordered_params, values,
          last_param, output, first>>

-----------------------------------------------------------------------------
(* Bounds                                                                  *)

MaxArgs == 2

MaxOptions == 6

MaxLen == 3

MaxParams == 3

MaxCount == 2

-----------------------------------------------------------------------------
(* Values                                                                  *)

None == "None"

NoFile == [name |-> <<>>, text |-> <<>>]

NoParams == <<FALSE, FALSE, FALSE, FALSE>>

NoValues == <<<<>>, <<>>, <<>>, <<>>>>

RECURSIVE SeqsUpTo(_, _)
SeqsUpTo(S, n) ==
    IF n = 0 THEN {<<>>}
    ELSE LET shorter == SeqsUpTo(S, n - 1)
         IN shorter \cup {Append(s, x) : s \in shorter, x \in S}

\* "Hello world\nThis is a test", the text of get_wc_values' docstring
HelloText ==
    <<72, 101, 108, 108, 111, 32, 119, 111, 114, 108, 100, 10,
      84, 104, 105, 115, 32, 105, 115, 32, 97, 32, 116, 101, 115, 116>>

\* "é a€\n": non-ASCII text, whose byte and char counts differ
AccentText == <<233, 32, 97, 8364, 10>>

\* a, space, newline, tab, no-break space, e-acute, euro sign, an emoji
Alphabet == {97, 32, 10, 9, 160, 233, 8364, 128512}

Texts == SeqsUpTo(Alphabet, MaxLen) \cup {HelloText, AccentText}

Files ==
    { [name |-> <<"f", ".", "t", "x", "t">>, text |-> HelloText],
      [name |-> <<"<", "s", "t", "d", "i", "n", ">">>, text |-> AccentText] }

\* the option tokens a user can type
OptionTokens == {"-c", "-l", "-w", "-m"}

ArgLists == SeqsUpTo(OptionTokens, MaxArgs)

-----------------------------------------------------------------------------
(* Python built-ins used by the code                                       *)

Digits == <<"0", "1", "2", "3", "4", "5", "6", "7", "8", "9">>

\* str(n) for a non-negative int
RECURSIVE Str(_)
Str(n) ==
    IF n < 10 THEN <<Digits[n + 1]>>
    ELSE Str(n \div 10) \o <<Digits[(n % 10) + 1]>>

\* str.isspace() of one character
IsSpace(c) ==
    c \in {9, 10, 11, 12, 13, 28, 29, 30, 31, 32, 133, 160, 5760,
           8232, 8233, 8239, 8287, 12288}
    \/ (c >= 8192 /\ c <= 8202)

\* number of bytes of one character in UTF-8
Utf8Len(c) ==
    IF c < 128 THEN 1 ELSE IF c < 2048 THEN 2 ELSE IF c < 65536 THEN 3 ELSE 4

\* len(text.encode("utf-8"))
RECURSIVE EncodedLen(_)
EncodedLen(text) ==
    IF text = <<>> THEN 0 ELSE Utf8Len(Head(text)) + EncodedLen(Tail(text))

RECURSIVE SkipSpace(_)
SkipSpace(text) ==
    IF text # <<>> /\ IsSpace(Head(text)) THEN SkipSpace(Tail(text)) ELSE text

RECURSIVE SkipWord(_)
SkipWord(text) ==
    IF text # <<>> /\ ~IsSpace(Head(text)) THEN SkipWord(Tail(text)) ELSE text

\* text.split(" "): every single space separates, empty tokens are kept
RECURSIVE split_on_space(_)
split_on_space(text) ==
    LET n == CHOOSE k \in 0..Len(text) :
                 /\ \A i \in 1..k : text[i] # 32
                 /\ (k = Len(text) \/ text[k + 1] = 32)
    IN IF n = Len(text) THEN <<text>>
       ELSE <<SubSeq(text, 1, n)>> \o split_on_space(SubSeq(text, n + 2, Len(text)))

\* text.split(): skip whitespace, take a maximal run, repeat
RECURSIVE split(_)
split(text) ==
    LET s == SkipSpace(text)
        rest == SkipWord(s)
    IN IF s = <<>> THEN <<>>
       ELSE <<SubSeq(s, 1, Len(s) - Len(rest))>> \o split(rest)

\* sep.join(parts)
RECURSIVE Join(_, _)
Join(parts, sep) ==
    IF parts = <<>> THEN <<>>
    ELSE IF Len(parts) = 1 THEN parts[1]
    ELSE parts[1] \o <<sep>> \o Join(Tail(parts), sep)

-----------------------------------------------------------------------------
(* The functions of cli.py                                                 *)

\* get_wc_values whose byte count is len(text): the text is not encoded
get_wc_values_no_encode(text) ==
    << Str(Len(text)),
       Str(Cardinality({i \in 1..Len(text) : text[i] = 10})),
       Str(Len(split(text))),
       Str(Len(text)) >>

\* get_wc_values whose word count is len(text.split(" "))
get_wc_values_split_space(text) ==
    << Str(EncodedLen(text)),
       Str(Cardinality({i \in 1..Len(text) : text[i] = 10})),
       Str(Len(split_on_space(text))),
       Str(Len(text)) >>

\* get_wc_values: (byte_count, line_count, word_count, char_count), as strings
get_wc_values(text) ==
    << Str(EncodedLen(text)),
       Str(Cardinality({i \in 1..Len(text) : text[i] = 10})),
       Str(Len(split(text))),
       Str(Len(text)) >>

\* one iteration of byte_or_char's loop: two independent ifs
ScanStep(last, param) ==
    LET afterCount == IF param = "count" THEN "count" ELSE last
    IN IF param = "chars" THEN "chars" ELSE afterCount

RECURSIVE Scan(_, _)
Scan(last, ordered) ==
    IF ordered = <<>> THEN last
    ELSE Scan(ScanStep(last, Head(ordered)), Tail(ordered))

\* byte_or_char that keeps the first recognised parameter instead of the last
RECURSIVE byte_or_char_first(_)
byte_or_char_first(ordered) ==
    IF ordered = <<>> THEN None
    ELSE IF Head(ordered) \in {"count", "chars"} THEN Head(ordered)
    ELSE byte_or_char_first(Tail(ordered))

\* byte_or_char: the last "count" or "chars" of the list, None without one
byte_or_char(ordered) == Scan(None, ordered)

\* create_output whose default line ends with the char count
create_output_default_chars(p, v, last) ==
    IF ~(p[1] \/ p[2] \/ p[3] \/ p[4])
    THEN v[2] \o <<"\t">> \o v[3] \o <<"\t">> \o v[4]
    ELSE Join((IF p[2] THEN <<v[2]>> ELSE <<>>)
              \o (IF p[3] THEN <<v[3]>> ELSE <<>>)
              \o (IF p[1] /\ p[4]
                  THEN <<IF last = "count" THEN v[1] ELSE v[4]>>
                  ELSE (IF p[1] THEN <<v[1]>> ELSE <<>>)
                       \o (IF p[4] THEN <<v[4]>> ELSE <<>>)), "\t")

\* create_output without the "count and chars" branch: both fields are printed
create_output_both_fields(p, v, last) ==
    IF ~(p[1] \/ p[2] \/ p[3] \/ p[4])
    THEN v[2] \o <<"\t">> \o v[3] \o <<"\t">> \o v[1]
    ELSE Join((IF p[2] THEN <<v[2]>> ELSE <<>>)
              \o (IF p[3] THEN <<v[3]>> ELSE <<>>)
              \o (IF p[1] THEN <<v[1]>> ELSE <<>>)
              \o (IF p[4] THEN <<v[4]>> ELSE <<>>), "\t")

\* create_output
create_output(p, v, last) ==
    LET count == p[1]
        lines == p[2]
        words == p[3]
        chars == p[4]
        byte_count == v[1]
        line_count == v[2]
        word_count == v[3]
        char_count == v[4]
        out1 == IF lines THEN <<line_count>> ELSE <<>>
        out2 == IF words THEN Append(out1, word_count) ELSE out1
        out3 == IF count /\ chars
                THEN Append(out2, IF last = "count" THEN byte_count ELSE char_count)
                ELSE LET withCount == IF count THEN Append(out2, byte_count) ELSE out2
                     IN IF chars THEN Append(withCount, char_count) ELSE withCount
    IN IF ~(count \/ lines \/ words \/ chars)
       THEN line_count \o <<"\t">> \o word_count \o <<"\t">> \o byte_count
       ELSE Join(out3, "\t")

\* parse_file: read, resolve, count, format, append " <file name>"
parse_file(f, p, ordered) ==
    create_output(p, get_wc_values(f.text), byte_or_char(ordered))
        \o <<" ">> \o f.name

-----------------------------------------------------------------------------
(* The click layer                                                         *)

\* the parameter name of an option token (the @click.option declarations)
OptionName(tok) ==
    CASE tok = "-c" -> "count"
      [] tok = "-l" -> "lines"
      [] tok = "-w" -> "words"
      [] tok = "-m" -> "chars"

\* param_order of parser.parse_args: the options in command-line order, then
\* the positional argument "file" (click processes arguments after options)
ParamOrder(a) == [i \in 1..Len(a) |-> OptionName(a[i])] \o <<"file">>

\* parse_args that records the names in front of the list
parse_args_prepend(opts, a) == ParamOrder(a) \o opts

\* parse_args that records nothing
parse_args_no_record(opts, a) == opts

\* OrderedOptionsCommand.parse_args: _options after the call
parse_args(opts, a) == opts \o ParamOrder(a)

\* the booleans click hands to cli: a flag is set when its token occurs
Flags(a) ==
    LET names == {OptionName(a[i]) : i \in 1..Len(a)}
    IN << "count" \in names, "lines" \in names,
          "words" \in names, "chars" \in names >>

-----------------------------------------------------------------------------
(* Spec: one process, the command invoked again and again                  *)

NoInvocation == [args |-> <<>>, file |-> NoFile, output |-> <<>>]

Init ==
    /\ _options = <<>>
    /\ args = <<>>
    /\ file = NoFile
    /\ ran = "start"
    /\ params = NoParams
    /\ ordered_params = <<>>
    /\ values = NoValues
    /\ last_param = None
    /\ output = <<>>
    /\ first = NoInvocation

\* An invocation that reaches cli: parse_args records the names, click sets
\* the flags, cli hands the class attribute _options to parse_file and echoes
\* the line.
Invoke(a, f) ==
    /\ Len(_options) + Len(ParamOrder(a)) <= MaxOptions
    /\ _options' = parse_args(_options, a)
    /\ args' = a
    /\ file' = f
    /\ params' = Flags(a)
    /\ ordered_params' = _options'
    /\ last_param' = byte_or_char(ordered_params')
    /\ values' = get_wc_values(f.text)
    /\ output' = parse_file(f, params', ordered_params')
    /\ ran' = "cli"
    /\ first' = IF first = NoInvocation
                THEN [args |-> a, file |-> f, output |-> output']
                ELSE first

\* An invocation whose file cannot be opened: parse_args has recorded the
\* names when super().parse_args raises, and cli is never entered.
InvokeBadFile(a) ==
    /\ Len(_options) + Len(ParamOrder(a)) <= MaxOptions
    /\ _options' = parse_args(_options, a)
    /\ args' = a
    /\ file' = NoFile
    /\ params' = NoParams
    /\ ordered_params' = <<>>
    /\ last_param' = None
    /\ values' = NoValues
    /\ output' = <<>>
    /\ ran' = "usage_error"
    /\ UNCHANGED first

\* the argument lists whose names still fit into the bounded _options
Room == IF MaxOptions - Len(_options) - 1 < MaxArgs
        THEN MaxOptions - Len(_options) - 1
        ELSE MaxArgs

Next ==
    \/ \E a \in {x \in ArgLists : Len(x) <= Room}, f \in Files : Invoke(a, f)
    \/ \E a \in {x \in ArgLists : Len(x) <= Room} : InvokeBadFile(a)

Spec == Init /\ [][Next]_vars

-----------------------------------------------------------------------------
(* SpecCounter: get_wc_values on every text of Texts                       *)

InitCounter ==
    /\ file \in {[name |-> <<>>, text |-> t] : t \in Texts}
    /\ _options = <<>>
    /\ args = <<>>
    /\ ran = "start"
    /\ params = NoParams
    /\ ordered_params = <<>>
    /\ values = NoValues
    /\ last_param = None
    /\ output = <<>>
    /\ first = NoInvocation

GetWcValues ==
    /\ ran = "start"
    /\ values' = get_wc_values(file.text)
    /\ ran' = "counted"
    /\ UNCHANGED <<_options, args, file, params, ordered_params, last_param,
                   output, first>>

NextCounter == GetWcValues

SpecCounter == InitCounter /\ [][NextCounter]_vars

-----------------------------------------------------------------------------
(* SpecResolver: byte_or_char on every bounded list of parameter names     *)

ParamNames == {"count", "lines", "words", "chars", "file"}

InitResolver ==
    /\ ordered_params \in SeqsUpTo(ParamNames, MaxParams)
    /\ _options = <<>>
    /\ args = <<>>
    /\ file = NoFile
    /\ ran = "start"
    /\ params = NoParams
    /\ values = NoValues
    /\ last_param = None
    /\ output = <<>>
    /\ first = NoInvocation

ByteOrChar ==
    /\ ran = "start"
    /\ last_param' = byte_or_char(ordered_params)
    /\ ran' = "resolved"
    /\ UNCHANGED <<_options, args, file, params, ordered_params, values,
                   output, first>>

NextResolver == ByteOrChar

SpecResolver == InitResolver /\ [][NextResolver]_vars

-----------------------------------------------------------------------------
(* SpecFormat: create_output on every flag tuple and resolver decision     *)

\* the values of create_output's docstring examples: 1024, 50, 200, 980
DocValues == <<Str(1024), Str(50), Str(200), Str(980)>>

CountStrings == {Str(n) : n \in 0..MaxCount}

ValueTuples ==
    {<<b, l, w, c>> : b \in CountStrings, l \in CountStrings,
                      w \in CountStrings, c \in CountStrings}
    \cup {DocValues}

InitFormat ==
    /\ params \in {<<c, l, w, m>> : c \in BOOLEAN, l \in BOOLEAN,
                                    w \in BOOLEAN, m \in BOOLEAN}
    /\ values \in ValueTuples
    /\ last_param \in {"count", "chars", None}
    /\ _options = <<>>
    /\ args = <<>>
    /\ file = NoFile
    /\ ran = "start"
    /\ ordered_params = <<>>
    /\ output = <<>>
    /\ first = NoInvocation

CreateOutput ==
    /\ ran = "start"
    /\ output' = create_output(params, values, last_param)
    /\ ran' = "formatted"
    /\ UNCHANGED <<_options, args, file, params, ordered_params, values,
                   last_param, first>>

NextFormat == CreateOutput

SpecFormat == InitFormat /\ [][NextFormat]_vars

-----------------------------------------------------------------------------
(* Reading a printed line back                                             *)

\* the decimal number a digit string denotes
RECURSIVE ParseInt(_)
ParseInt(d) ==
    IF d = <<>> THEN 0
    ELSE 10 * ParseInt(SubSeq(d, 1, Len(d) - 1))
         + (CHOOSE k \in 0..9 : Digits[k + 1] = d[Len(d)])

\* the tab-separated fields of a line
RECURSIVE SplitTabs(_)
SplitTabs(line) ==
    IF \A i \in 1..Len(line) : line[i] # "\t" THEN <<line>>
    ELSE LET k == CHOOSE i \in 1..Len(line) :
                      line[i] = "\t" /\ \A j \in 1..(i - 1) : line[j] # "\t"
         IN <<SubSeq(line, 1, k - 1)>> \o SplitTabs(SubSeq(line, k + 1, Len(line)))

\* whether a line ends with one space and the name
EndsWithName(line, name) ==
    /\ Len(line) > Len(name)
    /\ SubSeq(line, Len(line) - Len(name) + 1, Len(line)) = name
    /\ line[Len(line) - Len(name)] = " "

\* the fields of an echoed line, the " <name>" suffix removed
Fields(line, name) == SplitTabs(SubSeq(line, 1, Len(line) - Len(name) - 1))

Last(s) == s[Len(s)]

IsOptionName(n) == n \in {"count", "lines", "words", "chars"}

\* the option names of the current invocation's arguments, in order
OwnNames == [i \in 1..Len(args) |-> OptionName(args[i])]

\* the rightmost position of -c or -m among the current arguments
RightmostByteOrChar ==
    CHOOSE i \in 1..Len(args) :
        /\ args[i] \in {"-c", "-m"}
        /\ \A j \in (i + 1)..Len(args) : args[j] \notin {"-c", "-m"}

-----------------------------------------------------------------------------
(* Claims about the process (Spec)                                         *)

\* C1: in every invocation that reaches cli, the option names in the list
\* handed to parse_file are exactly the option names of the current
\* invocation's arguments, in order, with nothing left from earlier ones.
C1_FlagOrderFresh ==
    ran = "cli" => SelectSeq(ordered_params, IsOptionName) = OwnNames

\* C2: the echoed line is a function of the current invocation alone (its
\* flags, their order, the text and the name): it is the line a fresh process
\* prints, and it is the line the process printed when its first invocation
\* was this same one.
C2_SameInvocationSameOutput ==
    ran = "cli" =>
        /\ output = parse_file(file, Flags(args), ParamOrder(args))
        /\ (first.args = args /\ first.file = file => output = first.output)

\* the same invocation, with -c and -m both given, run a second time
C2_Witness ==
    /\ ran = "cli"
    /\ first.args = args /\ first.file = file
    /\ params[1] /\ params[4]
    /\ values[1] # values[4]
    /\ Len(_options) > Len(ParamOrder(args))

C10_DecisionNeverNone ==
    /\ (ran = "cli" /\ params[1] /\ params[4]) => last_param \in {"count", "chars"}
    /\ ran = "cli" =>
          Last(SplitTabs(create_output(<<TRUE, params[2], params[3], TRUE>>,
                                       values, None))) = values[4]

\* both flags set in an invocation that follows an invocation with neither
C10_Witness ==
    /\ ran = "cli"
    /\ params[1] /\ params[4]
    /\ Len(_options) > Len(ParamOrder(args))
    /\ \A i \in 1..(Len(_options) - Len(ParamOrder(args))) :
           _options[i] \notin {"count", "chars"}
    /\ values[1] # values[4]
    /\ last_param = "chars"

-----------------------------------------------------------------------------
(* Claims about get_wc_values (SpecCounter)                                *)

\* the positions at which a maximal run of non-whitespace characters starts
RunStarts(text) ==
    {i \in 1..Len(text) :
        ~IsSpace(text[i]) /\ (i = 1 \/ IsSpace(text[i - 1]))}

IsNewline(c) == c = 10

-----------------------------------------------------------------------------
(* Claims about byte_or_char (SpecResolver)                                *)

\* C9: byte_or_char returns the rightmost "count" or "chars" of the list,
\* whatever else the list holds, and None exactly when it holds neither.
C9_RightmostRecognised ==
    ran = "resolved" =>
        LET hits == {i \in 1..Len(ordered_params) :
                        ordered_params[i] \in {"count", "chars"}}
        IN /\ (hits = {}) <=> (last_param = None)
           /\ hits # {} =>
                 last_param = ordered_params[CHOOSE i \in hits :
                                                \A j \in hits : j <= i]
           /\ ordered_params = <<"count", "chars">> => last_param = "chars"
           /\ ordered_params = <<"chars", "count">> => last_param = "count"
           /\ ordered_params = <<"count">> => last_param = "count"
           /\ ordered_params = <<>> => last_param = None

\* "chars" then "count" then another name: the later of the two is returned
C9_Witness ==
    /\ ran = "resolved"
    /\ ordered_params = <<"chars", "count", "file">>
    /\ last_param = "count"

-----------------------------------------------------------------------------
(* Claims about create_output (SpecFormat)                                 *)

\* C4: without any flag the line is line count, word count, byte count,
\* joined by single tabs, whatever the resolver decided.
C4_DefaultLine ==
    (ran = "formatted" /\ params = NoParams) =>
        /\ SplitTabs(output) = <<values[2], values[3], values[1]>>
        /\ Len(output) = Len(values[2]) + Len(values[3]) + Len(values[1]) + 2

\* no flag, decision "chars", byte and char counts that differ
C4_Witness ==
    /\ ran = "formatted"
    /\ params = NoParams
    /\ last_param = "chars"
    /\ values[1] # values[4]

\* C5: with at least one flag the fields are lines, words, then one
\* bytes/chars field, each present only when requested; the bytes/chars
\* field is the byte count for -c alone, the char count for -m alone and one
\* of the two for both.
C5_FixedFieldOrder ==
    (ran = "formatted" /\ params # NoParams) =>
        LET fields == SplitTabs(output)
            nl == IF params[2] THEN 1 ELSE 0
            nw == IF params[3] THEN 1 ELSE 0
            nb == IF params[1] \/ params[4] THEN 1 ELSE 0
        IN /\ Len(fields) = nl + nw + nb
           /\ params[2] => fields[1] = values[2]
           /\ params[3] => fields[nl + 1] = values[3]
           /\ (params[1] /\ ~params[4]) => fields[nl + nw + 1] = values[1]
           /\ (params[4] /\ ~params[1]) => fields[nl + nw + 1] = values[4]
           /\ (params[1] /\ params[4]) =>
                 fields[nl + nw + 1] \in {values[1], values[4]}

\* all four flags set on the docstring's values
C5_Witness ==
    /\ ran = "formatted"
    /\ params = <<TRUE, TRUE, TRUE, TRUE>>
    /\ values = DocValues
    /\ Len(SplitTabs(output)) = 3

=============================================================================
